---- MODULE Spec2Model ----
(***************************************************************************)
(* Google Search MCP server (src/src/index.ts): the process-wide rate      *)
(* limiter (requestCount / checkRateLimit), the two type guards, the two   *)
(* search functions and the CallToolRequestSchema handler.                 *)
(*                                                                         *)
(* A JavaScript value is a record [t |-> <typeof>, v |-> <value>].  A      *)
(* string is a sequence of tokens: "" is << >>, " " is <<" ">>, and the    *)
(* token "site:" stands for that five-character substring, so              *)
(* String.includes("site:") is a search for the token.  Text built by a    *)
(* template literal is the concatenation of its pieces.                    *)
(***************************************************************************)
EXTENDS Integers, Sequences, FiniteSets, TLC

VARIABLES
    now,            \* the wall clock read by Date.now() / new Date(), in ms
    requestCount,   \* the module-level requestCount object
    inv             \* the invocations of the CallTool handler, by slot

vars == <<now, requestCount, inv>>

-----------------------------------------------------------------------------
(* Bounds of the model.  The process starts at midnight of its first day. *)

\* handler invocations that may be in flight at once
NumInv == 2
\* second windows the clock may run through per day, request pipeline model
MaxWindows == 2
\* second windows the clock may run through per day, rate limiter model
MaxLimiterWindows == 20
\* calendar days after the first one
MaxDays == 1

-----------------------------------------------------------------------------
(* JavaScript values *)

Undefined == [t |-> "undefined", v |-> 0]
Null == [t |-> "object", v |-> 0]
Num(n) == [t |-> "number", v |-> n]
Str(s) == [t |-> "string", v |-> s]

typeof(x) == x.t

\* String(x) / `${x}` of a value, as text
ToText(x) ==
    CASE x.t = "string" -> x.v
      [] x.t = "number" -> <<ToString(x.v)>>
      [] x.t = "undefined" -> <<"undefined">>
      [] OTHER -> <<"null">>

\* s.includes(tok) for a token
Includes(s, tok) == \E k \in 1..Len(s) : s[k] = tok

\* s.trim() === "": only whitespace tokens
IsBlank(s) == \A k \in 1..Len(s) : s[k] = " "

-----------------------------------------------------------------------------
(* The clock: ms since the midnight before the process started.  Local     *)
(* time is taken to be UTC without daylight saving, so every day has       *)
(* DayMs ms, and the two clock reads of one checkRateLimit call (Date.now() *)
(* and new Date()) are taken to give the same instant.                     *)

DayMs == 24 * 60 * 60 * 1000

\* new Date(t).setHours(0, 0, 0, 0): the start of t's day (local time = UTC)
StartOfDay(t) == t - (t % DayMs)

-----------------------------------------------------------------------------
(* Rate limiter *)

RATE_LIMIT == [perDay |-> 100, perSecond |-> 5]

\* the window test with >= for >
SecondWindowElapsed_AtOneSecond(rc, t) == t - rc.lastSecondReset >= 1000

\* lines 116-120: reset the second counter if it has been a second
SecondWindowElapsed(rc, t) == t - rc.lastSecondReset > 1000

ResetSecond(rc, t) ==
    IF SecondWindowElapsed(rc, t)
    THEN [rc EXCEPT !.second = 0, !.lastSecondReset = t]
    ELSE rc

\* the day test with >= for >
NewDay_SameDay(rc, t) == StartOfDay(t) >= rc.lastDayReset

\* lines 122-127: reset the daily counter if it is a new day
NewDay(rc, t) == StartOfDay(t) > rc.lastDayReset

\* the day window following the clock to any other day, an earlier one too
ResetDay_OnChange(rc, t) ==
    IF StartOfDay(t) # rc.lastDayReset
    THEN [rc EXCEPT !.daily = 0, !.lastDayReset = StartOfDay(t)]
    ELSE rc

ResetDay(rc, t) ==
    IF NewDay(rc, t)
    THEN [rc EXCEPT !.daily = 0, !.lastDayReset = StartOfDay(t)]
    ELSE rc

\* both window resets, in the code's order
Maintain(rc, t) == ResetDay(ResetSecond(rc, t), t)

\* the cap test without its per-second half
OverLimit_DailyOnly(rc) == rc.daily >= RATE_LIMIT.perDay

\* lines 129-130: the cap test
OverLimit(rc) ==
    rc.second >= RATE_LIMIT.perSecond \/ rc.daily >= RATE_LIMIT.perDay

\* an increment written back from a count read before another invocation's
\* await: lost while another invocation is in flight
Increment_Stale(rc) ==
    IF \E j \in DOMAIN inv : inv[j].pc \in {"fetching", "reading"}
    THEN rc
    ELSE [rc EXCEPT !.second = @ + 1, !.daily = @ + 1]

\* lines 134-135
Increment(rc) == [rc EXCEPT !.second = @ + 1, !.daily = @ + 1]

\* a limiter that counts the calls it turns away
checkRateLimit_CountsRejected(rc, t) ==
    LET m == Maintain(rc, t)
    IN  [rc |-> Increment(m), thrown |-> OverLimit(m)]

\* checkRateLimit(): the counters it leaves, and whether it threw
checkRateLimit(rc, t) ==
    LET m == Maintain(rc, t)
    IN  IF OverLimit(m)
        THEN [rc |-> m, thrown |-> TRUE]
        ELSE [rc |-> Increment(m), thrown |-> FALSE]

-----------------------------------------------------------------------------
(* Tools, argument bags, requests and responses *)

WEB_SEARCH_TOOL == "google_web_search"
IMAGE_SEARCH_TOOL == "google_image_search"

Bag(q, c, st, si) == [query |-> q, count |-> c, start |-> st, site |-> si]

\* request.params.arguments when the host sends none
NoBag == Bag(Undefined, Undefined, Undefined, Undefined)

\* the URL's search parameters; searchType is "" for a web search
NoReq == [q |-> << >>, num |-> "", start |-> << >>, searchType |-> ""]

\* a response: status 0 until fetch settles; body.kind "none" until it is read
NoData == [hasError |-> FALSE, code |-> 0, message |-> << >>,
           hasItems |-> FALSE, items |-> << >>]
NoBody == [kind |-> "none", text |-> << >>, data |-> NoData]
NoResponse == [status |-> 0, statusText |-> "", body |-> NoBody]

TextBody(txt) == [kind |-> "text", text |-> txt, data |-> NoData]
JsonBody(d) == [kind |-> "json", text |-> << >>, data |-> d]
\* a body response.json() cannot parse; txt is the parser's message
BadBody(txt) == [kind |-> "invalid", text |-> txt, data |-> NoData]

Item(title, snippet, link, thumb) ==
    [title |-> title, snippet |-> snippet, link |-> link, thumbnailLink |-> thumb]

\* an invocation of the CallTool handler
Idle ==
    [pc |-> "idle", name |-> "", hasArgs |-> FALSE, args |-> NoBag,
     stages |-> << >>, fetches |-> 0, req |-> NoReq, response |-> NoResponse,
     isError |-> FALSE, text |-> << >>]

-----------------------------------------------------------------------------
(* Type guards, lines 186-202 *)

isGoogleWebSearchArgs(args) == typeof(args.query) = "string"

isGoogleImageSearchArgs(args) == typeof(args.query) = "string"

-----------------------------------------------------------------------------
(* The handler's two exits *)

AddStage(s, st) == [s EXCEPT !.stages = Append(@, st)]

\* the handler without its catch block: the error reaches the caller
Caught_Rethrown(s, message) == [s EXCEPT !.pc = "raised"]

\* lines 327-337: the catch block
Caught(s, message) ==
    [AddStage(s, "Completed") EXCEPT
        !.pc = "done", !.isError = TRUE, !.text = <<"Error: ">> \o message]

\* lines 303-306 and 315-318
Returned(s, results) ==
    [AddStage(s, "Completed") EXCEPT
        !.pc = "done", !.isError = FALSE, !.text = results]

\* lines 321-325: the default case
UnknownTool(s) ==
    [AddStage(s, "Completed") EXCEPT
        !.pc = "done", !.isError = TRUE, !.text = <<"Unknown tool: ", s.name>>]

-----------------------------------------------------------------------------
(* performWebSearch / performImageSearch up to the fetch *)

Min(a, b) == IF a < b THEN a ELSE b

\* a parameter with its default: `count = 5`
Default(x, d) == IF typeof(x) = "undefined" THEN d ELSE x

\* Math.min(count, 10).toString()
NumParam(count) ==
    CASE typeof(count) = "number" -> ToString(Min(count.v, 10))
      [] typeof(count) = "string" /\ IsBlank(count.v) -> "0"
      [] typeof(count) = "string" -> "NaN"
      [] typeof(count) = "undefined" -> "NaN"
      [] OTHER -> "0"

\* start.toString() throws on null
StartThrows(start) == typeof(start) = "object"

\* the truthiness of a value, as `if (site ...)` tests it
Truthy(x) ==
    CASE typeof(x) = "string" -> x.v # << >>
      [] typeof(x) = "number" -> x.v # 0
      [] OTHER -> FALSE

\* the site restriction appended to every query that names a site
searchQuery_Always(query, site) ==
    IF Truthy(site)
    THEN query.v \o <<" ", "site:">> \o ToText(site)
    ELSE query.v

\* lines 207-211: the query text sent upstream by a web search
searchQuery(query, site) ==
    IF Truthy(site) /\ ~Includes(query.v, "site:")
    THEN query.v \o <<" ", "site:">> \o ToText(site)
    ELSE query.v

WebRequest(query, count, start, site) ==
    [q |-> searchQuery(query, site), num |-> NumParam(count),
     start |-> ToText(start), searchType |-> ""]

ImageRequest(query, count, start) ==
    [q |-> query.v, num |-> NumParam(count),
     start |-> ToText(start), searchType |-> "image"]

\* a search function that waits, before the limiter, while the upstream call
\* of another invocation is in flight
performSearch_OneAtATime(s, req, startArg, rc, t) ==
    LET lim == checkRateLimit(rc, t)
        s1 == AddStage(s, "RateChecking")
        s2 == AddStage(s1, "Building")
        s3 == [AddStage(s2, "Calling") EXCEPT
                  !.pc = "fetching", !.fetches = @ + 1, !.req = req]
    IN  IF \E j \in DOMAIN inv : inv[j].pc \in {"fetching", "reading"}
        THEN [inv |-> [s EXCEPT !.pc = "waiting"], rc |-> rc]
        ELSE IF lim.thrown
        THEN [inv |-> Caught(s1, <<"Rate limit exceeded">>), rc |-> lim.rc]
        ELSE IF StartThrows(startArg)
        THEN [inv |-> Caught(s2, <<"Cannot read properties of null (reading 'toString')">>),
              rc |-> lim.rc]
        ELSE [inv |-> s3, rc |-> lim.rc]

\* the search function from its call to its first await; s is the invocation,
\* req the request it would send: [inv, rc]
performSearch(s, req, startArg, rc, t) ==
    LET lim == checkRateLimit(rc, t)
        s1 == AddStage(s, "RateChecking")
        s2 == AddStage(s1, "Building")
        s3 == [AddStage(s2, "Calling") EXCEPT
                  !.pc = "fetching", !.fetches = @ + 1, !.req = req]
    IN  IF lim.thrown
        THEN [inv |-> Caught(s1, <<"Rate limit exceeded">>), rc |-> lim.rc]
        ELSE IF StartThrows(startArg)
        THEN [inv |-> Caught(s2, <<"Cannot read properties of null (reading 'toString')">>),
              rc |-> lim.rc]
        ELSE [inv |-> s3, rc |-> lim.rc]

\* lines 288-326, up to the first await
handleCall(name, hasArgs, args, rc, t) ==
    LET s == [Idle EXCEPT !.name = name, !.hasArgs = hasArgs, !.args = args,
                          !.stages = <<"Received", "Validating">>]
        count == Default(args.count, Num(5))
        start == Default(args.start, Num(1))
        site == Default(args.site, Str(<< >>))
    IN  IF ~hasArgs
        THEN [inv |-> Caught(s, <<"No arguments provided">>), rc |-> rc]
        ELSE IF name = WEB_SEARCH_TOOL
        THEN IF ~isGoogleWebSearchArgs(args)
             THEN [inv |-> Caught(s, <<"Invalid arguments for ", WEB_SEARCH_TOOL>>), rc |-> rc]
             ELSE performSearch(s, WebRequest(args.query, count, start, site), start, rc, t)
        ELSE IF name = IMAGE_SEARCH_TOOL
        THEN IF ~isGoogleImageSearchArgs(args)
             THEN [inv |-> Caught(s, <<"Invalid arguments for ", IMAGE_SEARCH_TOOL>>), rc |-> rc]
             ELSE performSearch(s, ImageRequest(args.query, count, start), start, rc, t)
        ELSE [inv |-> UnknownTool(s), rc |-> rc]

-----------------------------------------------------------------------------
(* The search functions from the fetch on *)

\* response.ok
Ok(status) == 200 <= status /\ status <= 299

RECURSIVE Join(_, _)
\* blocks.join(sep)
Join(blocks, sep) ==
    IF Len(blocks) = 0 THEN << >>
    ELSE IF Len(blocks) = 1 THEN blocks[1]
    ELSE blocks[1] \o sep \o Join(Tail(blocks), sep)

\* line 242
FormatWebItem(item, index) ==
    <<"[", ToString(index + 1), "] Title: ">> \o ToText(item.title)
    \o <<"\n", "Description: ">> \o ToText(item.snippet)
    \o <<"\n", "URL: ">> \o ToText(item.link)

\* line 279
FormatImageItem(item, index) ==
    <<"[", ToString(index + 1), "] Title: ">> \o ToText(item.title)
    \o <<"\n", "Description: ">>
    \o (IF Truthy(item.snippet) THEN ToText(item.snippet) ELSE <<"No description">>)
    \o <<"\n", "Image URL: ">> \o ToText(item.link)
    \o <<"\n">>
    \o (IF Truthy(item.thumbnailLink)
        THEN <<"Thumbnail: ">> \o ToText(item.thumbnailLink) ELSE << >>)

\* lines 241-243 and 278-280
FormatItems(name, items) ==
    Join([k \in 1..Len(items) |->
            IF name = WEB_SEARCH_TOOL
            THEN FormatWebItem(items[k], k - 1)
            ELSE FormatImageItem(items[k], k - 1)],
         <<"\n", "\n">>)

\* one sentence for both tools
NoResultsText_Shared(name) == <<"No results found for your query.">>

\* lines 237 and 274
NoResultsText(name) ==
    IF name = WEB_SEARCH_TOOL
    THEN <<"No results found for your query.">>
    ELSE <<"No image results found for your query.">>

\* lines 227 and 264
TransportErrorMessage(status, statusText, bodyText) ==
    <<"Google API error: ", ToString(status), " ", statusText, "\n">> \o bodyText

\* lines 233 and 270
ApiErrorMessage(data) ==
    <<"Google API error: ", ToString(data.code), " ">> \o data.message

\* lines 236 and 273
NoItems(data) == ~data.hasItems \/ Len(data.items) = 0

\* a fetch that is issued again when it rejects
fetchSettled_Retry(s, outcome) ==
    IF outcome.rejects
    THEN [s EXCEPT !.fetches = @ + 1]
    ELSE [s EXCEPT !.pc = "reading", !.response.status = outcome.status,
                   !.response.statusText = outcome.statusText]

\* `await fetch(url, ...)` settles: it rejects with a message, or resolves
\* with a status whose body is still to be read
fetchSettled(s, outcome) ==
    IF outcome.rejects
    THEN Caught(s, outcome.message)
    ELSE [s EXCEPT !.pc = "reading", !.response.status = outcome.status,
                   !.response.statusText = outcome.statusText]

\* the items looked at before the embedded error
bodySettled_ItemsFirst(s, body) ==
    LET r == [s EXCEPT !.response.body = body]
    IN  IF ~Ok(r.response.status)
        THEN Caught(r, TransportErrorMessage(r.response.status,
                                             r.response.statusText, body.text))
        ELSE IF body.kind = "invalid"
        THEN Caught(r, body.text)
        ELSE IF ~NoItems(body.data)
        THEN Returned(AddStage(r, "Formatting"), FormatItems(r.name, body.data.items))
        ELSE IF body.data.hasError
        THEN Caught(r, ApiErrorMessage(body.data))
        ELSE Returned(AddStage(r, "Formatting"), NoResultsText(r.name))

\* lines 226-243 and 263-280, from `await response.text()` or
\* `await response.json()` on
bodySettled(s, body) ==
    LET r == [s EXCEPT !.response.body = body]
    IN  IF ~Ok(r.response.status)
        THEN Caught(r, TransportErrorMessage(r.response.status,
                                             r.response.statusText, body.text))
        ELSE IF body.kind = "invalid"
        THEN Caught(r, body.text)
        ELSE IF body.data.hasError
        THEN Caught(r, ApiErrorMessage(body.data))
        ELSE IF NoItems(body.data)
        THEN Returned(AddStage(r, "Formatting"), NoResultsText(r.name))
        ELSE Returned(AddStage(r, "Formatting"), FormatItems(r.name, body.data.items))

\* response.text() is awaited when the status is not ok, response.json() when it is
BodyFits(status, body) ==
    IF Ok(status) THEN body.kind \in {"json", "invalid"} ELSE body.kind = "text"

-----------------------------------------------------------------------------
(* Inputs *)

Invs == 1..NumInv

\* the slot of the models that run one invocation at a time
One == {1}

ToolNames == {WEB_SEARCH_TOOL, IMAGE_SEARCH_TOOL, "google_news_search"}

Foo == Str(<<"foo">>)

QueryVals == {Undefined, Num(7), Str(<< >>), Str(<<" ">>), Foo}
CountVals == {Undefined, Num(0), Num(5), Num(11), Str(<<"abc">>)}
StartVals == {Undefined, Num(0), Num(1), Null, Str(<<"x">>)}
SiteVals == {Undefined, Str(<< >>), Str(<<"example.com">>)}
FooAtSite == Str(<<"foo", " ", "site:", "a.org">>)

\* the argument bags of the request pipeline model; hasArgs is FALSE when the
\* request carries no arguments
ArgBags ==
    {[hasArgs |-> TRUE, args |-> Bag(q, c, Undefined, Undefined)] :
        q \in QueryVals, c \in CountVals}
    \cup {[hasArgs |-> TRUE, args |-> Bag(q, Undefined, st, si)] :
        q \in {Foo, FooAtSite}, st \in StartVals, si \in SiteVals}
    \cup {[hasArgs |-> FALSE, args |-> NoBag]}

ValidBags == {[hasArgs |-> TRUE, args |-> Bag(Foo, Undefined, Undefined, Undefined)]}

Resolves(status, statusText) ==
    [rejects |-> FALSE, message |-> << >>, status |-> status, statusText |-> statusText]
Rejects(message) ==
    [rejects |-> TRUE, message |-> message, status |-> 0, statusText |-> ""]

FetchOutcomes == {Resolves(200, "OK"), Resolves(403, "Forbidden"), Rejects(<<"fetch failed">>)}

Full == Item(Str(<<"T1">>), Str(<<"S1">>), Str(<<"L1">>), Str(<<"H1">>))
Bare == Item(Str(<<"T2">>), Undefined, Str(<<"L2">>), Undefined)

Data(items) == [NoData EXCEPT !.hasItems = TRUE, !.items = items]
WithError(d, code, message) ==
    [d EXCEPT !.hasError = TRUE, !.code = code, !.message = message]

Bodies ==
    {TextBody(<<"quota">>), BadBody(<<"Unexpected end of JSON input">>),
     JsonBody(NoData), JsonBody(Data(<< >>)), JsonBody(Data(<<Full>>)),
     JsonBody(Data(<<Bare, Full>>)),
     JsonBody(WithError(NoData, 403, <<"Daily Limit Exceeded">>)),
     JsonBody(WithError(Data(<<Full>>), 400, <<"invalid key">>))}

-----------------------------------------------------------------------------
(* Actions *)

Init ==
    /\ now = 0
    /\ requestCount = [daily |-> 0, second |-> 0,
                       lastSecondReset |-> 0, lastDayReset |-> StartOfDay(0)]
    /\ inv = [i \in Invs |-> Idle]

\* the host invokes a tool: the handler runs to its first await or to its end
CallTool(i, names, bags) ==
    /\ inv[i].pc = "idle"
    /\ \E name \in names, b \in bags :
         LET r == handleCall(name, b.hasArgs, b.args, requestCount, now)
         IN  /\ inv' = [inv EXCEPT ![i] = r.inv]
             /\ requestCount' = r.rc
    /\ UNCHANGED now

\* the fetch of invocation i settles
FetchSettles(i, outcomes) ==
    /\ inv[i].pc = "fetching"
    /\ \E o \in outcomes : inv' = [inv EXCEPT ![i] = fetchSettled(inv[i], o)]
    /\ UNCHANGED <<now, requestCount>>

\* a call whose upstream response is a failure gives its quota back
BodySettles_Refund(i, bodies) ==
    /\ inv[i].pc = "reading"
    /\ \E b \in bodies :
         /\ BodyFits(inv[i].response.status, b)
         /\ inv' = [inv EXCEPT ![i] = bodySettled(inv[i], b)]
         /\ requestCount' =
              IF bodySettled(inv[i], b).isError
              THEN [requestCount EXCEPT !.second = @ - 1, !.daily = @ - 1]
              ELSE requestCount
    /\ UNCHANGED now

\* the body of invocation i's response arrives
BodySettles(i, bodies) ==
    /\ inv[i].pc = "reading"
    /\ \E b \in bodies :
         /\ BodyFits(inv[i].response.status, b)
         /\ inv' = [inv EXCEPT ![i] = bodySettled(inv[i], b)]
    /\ UNCHANGED <<now, requestCount>>

\* the result of invocation i goes back to the host
Return(i) ==
    /\ inv[i].pc = "done"
    /\ inv' = [inv EXCEPT ![i] = Idle]
    /\ UNCHANGED <<now, requestCount>>

\* the second windows the clock runs through on the day of t: `windows` on
\* the first day, MaxWindows on a later one
WindowsOn(t, windows) == IF t \div DayMs = 0 THEN windows ELSE MaxWindows

\* the clock advances by d ms, within the windows the model runs through
Tick(ticks, windows) ==
    \E d \in ticks :
        /\ (now + d) \div DayMs <= MaxDays
        /\ \/ StartOfDay(now + d) > StartOfDay(now)
           \/ (now + d) % DayMs <= WindowsOn(now + d, windows) * 1001
        /\ now' = now + d
        /\ UNCHANGED <<requestCount, inv>>

\* the clock advances to half a second before midnight
SkipToDayEnd(windows) ==
    /\ now \div DayMs < MaxDays
    /\ now % DayMs <= WindowsOn(now, windows) * 1001
    /\ now' = StartOfDay(now) + DayMs - 500
    /\ UNCHANGED <<requestCount, inv>>

\* the clock advances once the calls of the current second window are spent
TickAfterBurst(ticks, windows) ==
    /\ requestCount.second = RATE_LIMIT.perSecond
    /\ ~SecondWindowElapsed(requestCount, now)
    /\ Tick(ticks, windows)

\* the clock is set back by d ms (an adjustment of the system time) while no
\* invocation is in flight, within the windows the model runs through
StepBack(steps, windows) ==
    \E d \in steps :
        /\ \A i \in Invs : inv[i].pc = "idle"
        /\ now - d >= 0
        /\ (now - d) % DayMs <= WindowsOn(now - d, windows) * 1001
        /\ now' = now - d
        /\ UNCHANGED <<requestCount, inv>>

-----------------------------------------------------------------------------
(* The request pipeline: every tool name, argument bag and upstream        *)
(* response, one invocation at a time                                      *)

Next ==
    \/ \E i \in One : CallTool(i, ToolNames, ArgBags)
    \/ \E i \in One : FetchSettles(i, FetchOutcomes)
    \/ \E i \in One : BodySettles(i, Bodies)
    \/ \E i \in One : Return(i)
    \/ Tick({1001}, MaxWindows)

Spec == Init /\ [][Next]_vars

(* The second window: overlapping valid calls of both tools against a      *)
(* clock that stops short of, and steps past, the end of the window        *)

SearchTools == {WEB_SEARCH_TOOL, IMAGE_SEARCH_TOOL}

NextSecond ==
    \/ \E i \in Invs : CallTool(i, SearchTools, ValidBags)
    \/ \E i \in Invs : FetchSettles(i, {Rejects(<<"fetch failed">>)})
    \/ \E i \in Invs : Return(i)
    \/ Tick({1000, 1001}, MaxWindows)

SpecSecond == Init /\ [][NextSecond]_vars

(* The day window: valid calls of both tools, one at a time, through a     *)
(* whole day's quota; the clock steps from window to window, and across    *)
(* midnight also within a window                                           *)

NextDay ==
    \/ \E i \in One : CallTool(i, SearchTools, ValidBags)
    \/ \E i \in One : FetchSettles(i, {Rejects(<<"fetch failed">>)})
    \/ \E i \in One : Return(i)
    \/ Tick({1001}, MaxLimiterWindows)
    \/ Tick({1000}, 0)
    \/ SkipToDayEnd(MaxLimiterWindows)

SpecDay == Init /\ [][NextDay]_vars

(* Overlapping invocations through a whole day's quota: valid calls of     *)
(* both tools in every slot, suspended at their fetch while the other       *)
(* slots run; the clock moves from spent window to spent window, and at     *)
(* any time to the end of the day and across midnight                       *)

NextOverlap ==
    \/ \E i \in Invs : CallTool(i, SearchTools, ValidBags)
    \/ \E i \in Invs : FetchSettles(i, {Rejects(<<"fetch failed">>)})
    \/ \E i \in Invs : Return(i)
    \/ TickAfterBurst({1001}, MaxLimiterWindows)
    \/ SkipToDayEnd(MaxLimiterWindows)

SpecOverlap == Init /\ [][NextOverlap]_vars

(* A clock that stalls, advances and is set back, by a second window and    *)
(* by a day: valid calls of both tools, one at a time                       *)

NextClock ==
    \/ \E i \in One : CallTool(i, SearchTools, ValidBags)
    \/ \E i \in One : FetchSettles(i, {Rejects(<<"fetch failed">>)})
    \/ \E i \in One : Return(i)
    \/ Tick({1001}, MaxWindows)
    \/ SkipToDayEnd(MaxWindows)
    \/ StepBack({1001, DayMs}, MaxWindows)

SpecClock == Init /\ [][NextClock]_vars

(* A hung upstream call: the fetch of an invocation in slot 1 never         *)
(* settles; the upstream calls of the other slots return, each in its own   *)
(* time (weak fairness of their fetch and body steps), with a result or a   *)
(* rejection                                                               *)

Others == Invs \ One

HungOutcomes == {Resolves(200, "OK"), Rejects(<<"fetch failed">>)}

HungBodies == {JsonBody(Data(<<Full>>))}

NextHung ==
    \/ \E i \in Invs : CallTool(i, SearchTools, ValidBags)
    \/ \E i \in Others : FetchSettles(i, HungOutcomes)
    \/ \E i \in Others : BodySettles(i, HungBodies)
    \/ \E i \in Invs : Return(i)
    \/ Tick({1001}, MaxWindows)

SpecHung ==
    /\ Init
    /\ [][NextHung]_vars
    /\ \A i \in Others : WF_vars(FetchSettles(i, HungOutcomes))
    /\ \A i \in Others : WF_vars(BodySettles(i, HungBodies))

-----------------------------------------------------------------------------
(* What a step did to invocation i *)

\* the host called a tool in slot i
Called(i) == inv[i].pc = "idle" /\ inv'[i].pc # "idle"

\* the call passed validation and reached the rate limiter
Attempted(i) == Called(i) /\ Includes(inv'[i].stages, "RateChecking")

RateLimitText == <<"Error: ", "Rate limit exceeded">>

RateLimited(s) == s.pc = "done" /\ s.isError /\ s.text = RateLimitText

\* the rate limiter let the call through to the upstream request
Admitted(i) == Attempted(i) /\ inv'[i].pc = "fetching" /\ inv'[i].fetches = 1

Rejected(i) == Attempted(i) /\ RateLimited(inv'[i]) /\ inv'[i].fetches = 0

-----------------------------------------------------------------------------
(* C1 *)

\* C1: in every reachable state, whatever mix of web and image searches and
\* clock advances led to it, the second counter is at most perSecond (5) and
\* the daily counter at most perDay (100).
C1_CountersWithinCaps ==
    /\ requestCount.second \in 0..5
    /\ requestCount.daily \in 0..100

\* both counters at their caps, and a call turned away
C1_Witness ==
    /\ requestCount.second = 5
    /\ requestCount.daily = 100
    /\ \E i \in Invs : RateLimited(inv[i])

-----------------------------------------------------------------------------
(* C2 *)

\* C2: while the daily budget lasts, an attempt made within the second
\* window (now - lastSecondReset <= 1000) is admitted and counted when fewer
\* than 5 were admitted in the window, and fails with "Rate limit exceeded"
\* once 5 were; an attempt made after the window has elapsed
\* (now - lastSecondReset > 1000) starts a new window at now and is admitted
\* as its first call.
C2_SecondWindow ==
    [][\A i \in Invs :
        (/\ Attempted(i)
         /\ (requestCount.daily < 100 \/ StartOfDay(now) > requestCount.lastDayReset))
        => IF now - requestCount.lastSecondReset > 1000
           THEN /\ Admitted(i)
                /\ requestCount'.second = 1
                /\ requestCount'.lastSecondReset = now
           ELSE /\ requestCount'.lastSecondReset = requestCount.lastSecondReset
                /\ IF requestCount.second < 5
                   THEN Admitted(i) /\ requestCount'.second = requestCount.second + 1
                   ELSE Rejected(i) /\ requestCount'.second = 5]_vars

\* a window that was started by a reset has taken its 5 calls and turned the
\* sixth away
C2_Witness ==
    /\ requestCount.lastSecondReset > 0
    /\ requestCount.second = 5
    /\ requestCount.daily < 100
    /\ now - requestCount.lastSecondReset <= 1000
    /\ \E i \in Invs : RateLimited(inv[i])

-----------------------------------------------------------------------------
(* C3 *)

\* the second counter as the window reset leaves it is below its cap
C3_SecondBudget ==
    now - requestCount.lastSecondReset > 1000 \/ requestCount.second < 5

\* C3 as stated: on the day of dayWindowStart an attempt is admitted and
\* counted while fewer than 100 were (the second cap permitting), and fails
\* once 100 were, whatever the second window; the first attempt of a later
\* day resets the daily counter and is admitted.
C3_Original ==
    [][\A i \in Invs :
        Attempted(i)
        => IF StartOfDay(now) > requestCount.lastDayReset
           THEN /\ requestCount'.lastDayReset = StartOfDay(now)
                /\ Admitted(i)
                /\ requestCount'.daily = 1
           ELSE /\ requestCount'.lastDayReset = requestCount.lastDayReset
                /\ IF requestCount.daily >= 100
                   THEN Rejected(i) /\ requestCount'.daily = 100
                   ELSE C3_SecondBudget
                        => Admitted(i) /\ requestCount'.daily = requestCount.daily + 1]_vars

\* C3, amended: as stated, but the first attempt of a later day, which resets
\* the daily counter, is admitted only if the second cap permits; if its
\* second window is full it fails and leaves the daily counter at 0.
C3_DayWindow ==
    [][\A i \in Invs :
        Attempted(i)
        => IF StartOfDay(now) > requestCount.lastDayReset
           THEN /\ requestCount'.lastDayReset = StartOfDay(now)
                /\ IF C3_SecondBudget
                   THEN Admitted(i) /\ requestCount'.daily = 1
                   ELSE Rejected(i) /\ requestCount'.daily = 0
           ELSE /\ requestCount'.lastDayReset = requestCount.lastDayReset
                /\ IF requestCount.daily >= 100
                   THEN Rejected(i) /\ requestCount'.daily = 100
                   ELSE C3_SecondBudget
                        => Admitted(i) /\ requestCount'.daily = requestCount.daily + 1]_vars

\* the day's 100 calls are spent and a call in a fresh second window, its
\* second counter reset to 0, was turned away
C3_Witness ==
    /\ requestCount.daily = 100
    /\ requestCount.second = 0
    /\ requestCount.lastSecondReset = now
    /\ \E i \in Invs : RateLimited(inv[i])

-----------------------------------------------------------------------------
(* C4 *)

\* the call has no argument bag, no `query`, or a `query` that trims to ""
C4_NoQuery(s) ==
    \/ ~s.hasArgs
    \/ typeof(s.args.query) = "undefined"
    \/ typeof(s.args.query) = "string" /\ IsBlank(s.args.query.v)

\* C4: a call of either tool without `query`, or with a blank `query`, ends
\* at once with isError = TRUE, leaves requestCount as it was and issues no
\* upstream request.
C4_Original ==
    [][\A i \in Invs :
        (Called(i) /\ inv'[i].name \in SearchTools /\ C4_NoQuery(inv'[i]))
        => /\ inv'[i].pc = "done"
           /\ inv'[i].isError
           /\ inv'[i].fetches = 0
           /\ requestCount' = requestCount]_vars

-----------------------------------------------------------------------------
(* C5 *)

C5_BadCount(x) ==
    /\ typeof(x) # "undefined"
    /\ IF typeof(x) = "number" THEN x.v < 1 \/ x.v > 10 ELSE TRUE

C5_BadStart(x) ==
    /\ typeof(x) # "undefined"
    /\ IF typeof(x) = "number" THEN x.v < 1 ELSE TRUE

\* C5: a call of either tool whose `count` is present and not a number in
\* [1,10], or whose `start` is present and not a number >= 1, ends at once
\* with isError = TRUE, leaves requestCount as it was and issues no upstream
\* request; a call that leaves both out is sent with num = 5 and start = 1.
C5_Original ==
    [][\A i \in Invs :
        (Called(i) /\ inv'[i].name \in SearchTools /\ inv'[i].hasArgs)
        => /\ (C5_BadCount(inv'[i].args.count) \/ C5_BadStart(inv'[i].args.start))
              => /\ inv'[i].pc = "done"
                 /\ inv'[i].isError
                 /\ inv'[i].fetches = 0
                 /\ requestCount' = requestCount
           /\ (/\ Admitted(i)
               /\ typeof(inv'[i].args.count) = "undefined"
               /\ typeof(inv'[i].args.start) = "undefined")
              => inv'[i].req.num = "5" /\ inv'[i].req.start = <<"1">>]_vars

-----------------------------------------------------------------------------
(* C6 *)

\* the completed invocation met a failure: no arguments, an unknown tool, a
\* `query` that is no string, no upstream request sent (validation, the rate
\* limiter or building the request failed), a fetch that rejected, a status
\* that is not ok, a body that does not parse, or an embedded error
C6_Failed(s) ==
    \/ ~s.hasArgs
    \/ s.name \notin SearchTools
    \/ typeof(s.args.query) # "string"
    \/ s.fetches = 0
    \/ s.response.status = 0
    \/ s.response.status < 200
    \/ s.response.status > 299
    \/ s.response.body.kind = "invalid"
    \/ s.response.body.data.hasError

C6_UnknownTool(s) == s.hasArgs /\ s.name \notin SearchTools

\* C6 as stated: no invocation raises to the caller, and every completed
\* invocation that met a failure has isError = TRUE and a text that starts
\* "Error: ".
C6_Original ==
    \A i \in Invs :
        /\ inv[i].pc \in {"idle", "fetching", "reading", "done"}
        /\ (inv[i].pc = "done" /\ C6_Failed(inv[i]))
           => /\ inv[i].isError
              /\ Len(inv[i].text) >= 2
              /\ inv[i].text[1] = "Error: "

\* C6, amended: no invocation raises to the caller; every completed
\* invocation carries a text and a flag; the flag is TRUE exactly when the
\* invocation met a failure; the text of a failure is "Error: <message>",
\* except for an unknown tool name called with arguments, whose text is
\* "Unknown tool: <name>".
C6_NeverRaises ==
    \A i \in Invs :
        /\ inv[i].pc \in {"idle", "fetching", "reading", "done"}
        /\ inv[i].pc = "done"
           => /\ inv[i].isError \in BOOLEAN
              /\ Len(inv[i].text) >= 1
              /\ inv[i].isError <=> C6_Failed(inv[i])
              /\ inv[i].isError
                 => IF C6_UnknownTool(inv[i])
                    THEN /\ Len(inv[i].text) >= 2
                         /\ inv[i].text[1] = "Unknown tool: "
                         /\ inv[i].text[2] = inv[i].name
                    ELSE Len(inv[i].text) >= 2 /\ inv[i].text[1] = "Error: "

\* a response body that does not parse ended the invocation as an error
C6_Witness ==
    \E i \in Invs :
        /\ inv[i].pc = "done"
        /\ inv[i].response.body.kind = "invalid"
        /\ inv[i].isError
        /\ inv[i].text[1] = "Error: "

-----------------------------------------------------------------------------
(* C7 *)

\* C7: a call of a name that is neither tool ends at once with
\* isError = TRUE and a text that names both tools, leaves requestCount as it
\* was and issues no upstream request, whatever its arguments.
C7_Original ==
    [][\A i \in Invs :
        (Called(i) /\ inv'[i].name \notin SearchTools)
        => /\ inv'[i].pc = "done"
           /\ inv'[i].isError
           /\ Includes(inv'[i].text, "google_web_search")
           /\ Includes(inv'[i].text, "google_image_search")
           /\ inv'[i].fetches = 0
           /\ requestCount' = requestCount]_vars

-----------------------------------------------------------------------------
(* C8 *)

StagePath ==
    <<"Received", "Validating", "RateChecking", "Building", "Calling", "Formatting">>

IsPrefix(a, b) == Len(a) <= Len(b) /\ \A k \in 1..Len(a) : a[k] = b[k]

\* the stages an invocation went through before it completed
C8_Before(s) ==
    IF s.pc = "done" THEN SubSeq(s.stages, 1, Len(s.stages) - 1) ELSE s.stages

\* C8: an invocation sends at most one upstream request, and none unless it
\* reached Calling; one that failed validation or was rate limited sent
\* none; its stages are an initial part of Received, Validating,
\* RateChecking, Building, Calling, Formatting followed, when it is done, by
\* Completed, and it is an error whenever it completed short of Formatting.
C8_AtMostOneRequest ==
    \A i \in Invs :
        inv[i].pc # "idle"
        => /\ inv[i].fetches \in {0, 1}
           /\ inv[i].fetches = 1 <=> Includes(inv[i].stages, "Calling")
           /\ IsPrefix(C8_Before(inv[i]), StagePath)
           /\ Len(C8_Before(inv[i])) >= 2
           /\ inv[i].pc \in {"fetching", "reading"}
              => C8_Before(inv[i]) = SubSeq(StagePath, 1, 5)
           /\ inv[i].pc = "done"
              => /\ inv[i].stages[Len(inv[i].stages)] = "Completed"
                 /\ Len(C8_Before(inv[i])) < 6 => inv[i].isError
                 /\ (RateLimited(inv[i]) \/ Len(C8_Before(inv[i])) = 2)
                    => inv[i].fetches = 0

\* an invocation whose fetch rejected completed as an error after one request
C8_Witness ==
    \E i \in Invs :
        /\ inv[i].pc = "done"
        /\ inv[i].isError
        /\ inv[i].fetches = 1
        /\ inv[i].response.status = 0

-----------------------------------------------------------------------------
(* C9 *)

\* C9: a response whose status is not ok completes the invocation with
\* isError = TRUE and the text "Error: Google API error: <status>
\* <statusText>\n<body>"; an ok response whose payload has an error object
\* completes it with isError = TRUE and the text "Error: Google API error:
\* <code> <message>", whether or not the payload has items; neither is
\* formatted.
C9_UpstreamErrors ==
    \A i \in Invs :
        (inv[i].pc = "done" /\ inv[i].response.body.kind # "none")
        => LET r == inv[i].response
           IN  /\ (r.status < 200 \/ r.status > 299)
                  => /\ inv[i].isError
                     /\ inv[i].text =
                          <<"Error: ", "Google API error: ", ToString(r.status),
                            " ", r.statusText, "\n">> \o r.body.text
                     /\ ~Includes(inv[i].stages, "Formatting")
               /\ (r.status >= 200 /\ r.status <= 299 /\ r.body.data.hasError)
                  => /\ inv[i].isError
                     /\ inv[i].text =
                          <<"Error: ", "Google API error: ", ToString(r.body.data.code),
                            " ">> \o r.body.data.message
                     /\ ~Includes(inv[i].stages, "Formatting")

\* an ok response with an error object and items completed as an error
C9_Witness ==
    \E i \in Invs :
        /\ inv[i].pc = "done"
        /\ inv[i].response.status = 200
        /\ inv[i].response.body.data.hasError
        /\ Len(inv[i].response.body.data.items) > 0
        /\ inv[i].isError

-----------------------------------------------------------------------------
(* C10 *)

\* C10: an ok response without an error object and with no items, or an
\* empty items array, completes the invocation with isError = FALSE and the
\* tool's sentence: "No results found for your query." for a web search,
\* "No image results found for your query." for an image search; the two
\* differ.
C10_NoResults ==
    /\ NoResultsText(WEB_SEARCH_TOOL) # NoResultsText(IMAGE_SEARCH_TOOL)
    /\ \A i \in Invs :
        (/\ inv[i].pc = "done"
         /\ inv[i].response.status >= 200 /\ inv[i].response.status <= 299
         /\ inv[i].response.body.kind = "json"
         /\ ~inv[i].response.body.data.hasError
         /\ (~inv[i].response.body.data.hasItems
             \/ Len(inv[i].response.body.data.items) = 0))
        => /\ ~inv[i].isError
           /\ inv[i].name = "google_web_search"
              => inv[i].text = <<"No results found for your query.">>
           /\ inv[i].name = "google_image_search"
              => inv[i].text = <<"No image results found for your query.">>

\* an image search whose response has no items array completed with the
\* image sentence
C10_Witness ==
    \E i \in Invs :
        /\ inv[i].pc = "done"
        /\ inv[i].name = "google_image_search"
        /\ inv[i].response.body.kind = "json"
        /\ ~inv[i].response.body.data.hasItems
        /\ ~inv[i].isError
        /\ inv[i].text = <<"No image results found for your query.">>

-----------------------------------------------------------------------------
(* C11 *)

\* C11: the query text a web search sends upstream is the raw query followed
\* by " site:<site>" exactly when `site` is a non-empty string and the raw
\* query does not contain "site:"; with `site` absent or empty, or a query
\* that already contains "site:", it is the raw query unchanged.  An image
\* search always sends the raw query, whatever `site` it is called with.
C11_SiteAppended ==
    [][\A i \in Invs :
        Admitted(i)
        => LET a == inv'[i].args
           IN  IF /\ inv'[i].name = "google_web_search"
                  /\ typeof(a.site) = "string"
                  /\ a.site.v # << >>
                  /\ ~(\E k \in 1..Len(a.query.v) : a.query.v[k] = "site:")
               THEN inv'[i].req.q = a.query.v \o <<" ", "site:">> \o a.site.v
               ELSE inv'[i].req.q = a.query.v]_vars

\* a web search for "foo site:a.org" with site "example.com" was sent with
\* its query as given
C11_Witness ==
    \E i \in Invs :
        /\ inv[i].pc = "fetching"
        /\ inv[i].name = "google_web_search"
        /\ inv[i].args.query = Str(<<"foo", " ", "site:", "a.org">>)
        /\ inv[i].args.site = Str(<<"example.com">>)
        /\ inv[i].req.q = <<"foo", " ", "site:", "a.org">>

-----------------------------------------------------------------------------
(* C12 *)

RECURSIVE SplitLines(_)
\* text.split("\n"): the lines of a text
SplitLines(text) ==
    IF \A k \in 1..Len(text) : text[k] # "\n"
    THEN <<text>>
    ELSE LET k == CHOOSE k \in 1..Len(text) :
                     text[k] = "\n" /\ \A j \in 1..(k - 1) : text[j] # "\n"
         IN  <<SubSeq(text, 1, k - 1)>> \o SplitLines(SubSeq(text, k + 1, Len(text)))

\* the invocation completed on an ok response with at least one item and no
\* error object
FormattedItems(s) ==
    /\ s.pc = "done"
    /\ s.response.status >= 200 /\ s.response.status <= 299
    /\ s.response.body.kind = "json"
    /\ ~s.response.body.data.hasError
    /\ s.response.body.data.hasItems
    /\ Len(s.response.body.data.items) >= 1

\* the labelled lines of a block, in order
BlockLabels(name) ==
    IF name = "google_web_search"
    THEN <<"] Title: ", "Description: ", "URL: ">>
    ELSE <<"] Title: ", "Description: ", "Image URL: ", "Thumbnail: ">>

\* line p of block k of a text whose blocks have n lines and are one blank
\* line apart
BlockLine(ls, n, k, p) == ls[(k - 1) * (n + 1) + p]

\* C12: the text of a response with N >= 1 items is N blocks, numbered 1..N
\* in the order of the items, adjacent blocks one blank line apart, each
\* block a title line, a description line and a URL line, and for an image
\* search a thumbnail line.
C12_Original ==
    \A i \in Invs :
        FormattedItems(inv[i])
        => LET items == inv[i].response.body.data.items
               N == Len(items)
               labels == BlockLabels(inv[i].name)
               n == Len(labels)
               ls == SplitLines(inv[i].text)
           IN  /\ ~inv[i].isError
               /\ Len(ls) = N * n + (N - 1)
               /\ \A k \in 1..N :
                    /\ Len(BlockLine(ls, n, k, 1)) >= 3
                    /\ SubSeq(BlockLine(ls, n, k, 1), 1, 3)
                         = <<"[", ToString(k), "] Title: ">>
                    /\ typeof(items[k].title) = "string"
                       => BlockLine(ls, n, k, 1)
                            = <<"[", ToString(k), "] Title: ">> \o items[k].title.v
                    /\ \A p \in 2..n :
                         /\ Len(BlockLine(ls, n, k, p)) >= 1
                         /\ BlockLine(ls, n, k, p)[1] = labels[p]
                    /\ k < N => ls[k * (n + 1)] = << >>

-----------------------------------------------------------------------------
(* C13 *)

\* the fields of an item, in the order of their lines
ItemFields(name, item) ==
    IF name = "google_web_search"
    THEN <<item.title, item.snippet, item.link>>
    ELSE <<item.title, item.snippet, item.link, item.thumbnailLink>>

\* what follows the label on line p of a block
LineValue(line, p) ==
    IF p = 1 THEN SubSeq(line, 4, Len(line)) ELSE SubSeq(line, 2, Len(line))

\* C13: whichever of title, snippet, link (and, for an image, thumbnailLink)
\* an item lacks, every block has the same lines; the line of a field that
\* is present carries its value, the line of a missing field carries a
\* placeholder that is neither empty nor "undefined".
C13_Original ==
    \A i \in Invs :
        FormattedItems(inv[i])
        => LET items == inv[i].response.body.data.items
               N == Len(items)
               n == Len(BlockLabels(inv[i].name))
               ls == SplitLines(inv[i].text)
           IN  /\ Len(ls) = N * n + (N - 1)
               /\ \A k \in 1..N : \A p \in 1..n :
                    LET field == ItemFields(inv[i].name, items[k])[p]
                        value == LineValue(BlockLine(ls, n, k, p), p)
                    IN  IF typeof(field) = "string" /\ field.v # << >>
                        THEN value = field.v
                        ELSE value # << >> /\ value # <<"undefined">>

-----------------------------------------------------------------------------
(* C14 *)

\* the second counter as the window maintenance of a call at `now` leaves it
C14_SecondAfterMaintenance ==
    IF now - requestCount.lastSecondReset > 1000 THEN 0 ELSE requestCount.second

\* the daily counter as the window maintenance of a call at `now` leaves it
C14_DailyAfterMaintenance ==
    IF StartOfDay(now) > requestCount.lastDayReset THEN 0 ELSE requestCount.daily

\* C14: a call that reaches the limiter first has both windows maintained;
\* then, if the second counter is at 5 or the daily counter at 100, it fails
\* with "Rate limit exceeded" and increments neither counter, and otherwise
\* it is admitted and increments each counter by exactly 1.  A call turned
\* away by a cap leaves the start of that cap's window where it was.
C14_AdmitOrReject ==
    [][\A i \in Invs :
        Attempted(i)
        => IF C14_SecondAfterMaintenance >= 5 \/ C14_DailyAfterMaintenance >= 100
           THEN /\ Rejected(i)
                /\ requestCount'.second = C14_SecondAfterMaintenance
                /\ requestCount'.daily = C14_DailyAfterMaintenance
                /\ C14_SecondAfterMaintenance >= 5
                   => requestCount'.lastSecondReset = requestCount.lastSecondReset
                /\ C14_DailyAfterMaintenance >= 100
                   => requestCount'.lastDayReset = requestCount.lastDayReset
           ELSE /\ Admitted(i)
                /\ requestCount'.second = C14_SecondAfterMaintenance + 1
                /\ requestCount'.daily = C14_DailyAfterMaintenance + 1]_vars

\* the first call of the second day found its second window full: the day
\* was reset, the call was turned away and neither counter was incremented
C14_Witness ==
    /\ requestCount.lastDayReset = DayMs
    /\ requestCount.daily = 0
    /\ requestCount.second = 5
    /\ requestCount.lastSecondReset < DayMs
    /\ \E i \in Invs : RateLimited(inv[i])

-----------------------------------------------------------------------------
(* C15 *)

\* C15: however the invocations overlap, each one's window maintenance, cap
\* check and two increments are one step that no other invocation enters: a
\* step belongs to at most one invocation; a call that passes the rate check
\* adds exactly 1 to each counter as its own maintenance left it, whatever
\* other invocations are suspended at their fetch, and a call that does not
\* adds nothing; resuming, returning and the clock leave the counters alone; a
\* counter goes down only when its window start moves.  So each counter is
\* the number of calls admitted since its window was last reset, and it
\* never exceeds 5 per second window nor 100 per day window.
C15_NoLostIncrement ==
    [][/\ \A i, j \in Invs : i # j => (inv'[i] = inv[i] \/ inv'[j] = inv[j])
       /\ \A i \in Invs :
            Called(i)
            => IF Attempted(i) /\ inv'[i].text # RateLimitText
               THEN /\ requestCount'.second = C14_SecondAfterMaintenance + 1
                    /\ requestCount'.daily = C14_DailyAfterMaintenance + 1
                    /\ requestCount'.second <= 5
                    /\ requestCount'.daily <= 100
               ELSE /\ requestCount'.second = C14_SecondAfterMaintenance
                    /\ requestCount'.daily = C14_DailyAfterMaintenance
       /\ (\A i \in Invs : ~Called(i)) => requestCount' = requestCount
       /\ requestCount'.second < requestCount.second
          => requestCount'.lastSecondReset # requestCount.lastSecondReset
       /\ requestCount'.daily < requestCount.daily
          => requestCount'.lastDayReset # requestCount.lastDayReset]_vars

\* the 100th call of the day was admitted and is suspended at its fetch
\* while the call of another slot was turned away
C15_Witness ==
    /\ requestCount.daily = 100
    /\ requestCount.lastDayReset = 0
    /\ \E i, j \in Invs :
         /\ i # j
         /\ inv[i].pc = "fetching"
         /\ RateLimited(inv[j])

-----------------------------------------------------------------------------
(* C16 *)

\* C16: whatever the clock reads from one call to the next, the same time
\* again or an earlier one included, lastSecondReset and lastDayReset never
\* decrease: a step that changes lastSecondReset sets it to a clock reading
\* more than 1000 ms later, a step that changes lastDayReset sets it to the
\* start of a later day, and a counter is set back only in a step that moves
\* its window start forward.
C16_WindowsMoveForward ==
    [][/\ requestCount'.lastSecondReset >= requestCount.lastSecondReset
       /\ requestCount'.lastDayReset >= requestCount.lastDayReset
       /\ requestCount'.lastSecondReset # requestCount.lastSecondReset
          => /\ requestCount'.lastSecondReset = now
             /\ now > requestCount.lastSecondReset + 1000
       /\ requestCount'.lastDayReset # requestCount.lastDayReset
          => /\ requestCount'.lastDayReset = now - (now % DayMs)
             /\ requestCount'.lastDayReset > requestCount.lastDayReset
       /\ ~(requestCount'.second \in {requestCount.second, requestCount.second + 1})
          => requestCount'.lastSecondReset > requestCount.lastSecondReset
       /\ ~(requestCount'.daily \in {requestCount.daily, requestCount.daily + 1})
          => requestCount'.lastDayReset > requestCount.lastDayReset]_vars

\* the clock was set back to the day before the day window and to a time
\* before the second window, and the call made then was turned away by the
\* counters of those windows
C16_Witness ==
    /\ now < requestCount.lastSecondReset
    /\ now < requestCount.lastDayReset
    /\ requestCount.second = 5
    /\ \E i \in Invs : RateLimited(inv[i])

-----------------------------------------------------------------------------
(* C17 *)

\* C17: while the upstream call of the invocation in slot 1 never returns,
\* every invocation of another slot, started before or after it, completes
\* once its own upstream call has returned.
C17_OthersComplete ==
    \A i \in Invs \ {1} : (inv[i].pc # "idle") ~> (inv[i].pc = "done")

\* an invocation was admitted, sent its request and completed with results
\* while the invocation of slot 1 is suspended at its fetch
C17_Witness ==
    /\ inv[1].pc = "fetching"
    /\ \E i \in Invs \ {1} :
         /\ inv[i].pc = "done"
         /\ inv[i].fetches = 1
         /\ ~inv[i].isError

-----------------------------------------------------------------------------
(* C18 *)

\* the upstream call of the completed invocation failed: a status that is
\* not ok, a body that does not parse, or an embedded error object
UpstreamFailed(s) ==
    /\ s.pc = "done"
    /\ s.response.body.kind # "none"
    /\ \/ s.response.status < 200
       \/ s.response.status > 299
       \/ s.response.body.kind = "invalid"
       \/ s.response.body.data.hasError

\* the message of the error the search function threw
UpstreamMessage(s) ==
    LET r == s.response
    IN  IF r.status < 200 \/ r.status > 299
        THEN <<"Google API error: ", ToString(r.status), " ", r.statusText, "\n">>
             \o r.body.text
        ELSE IF r.body.kind = "invalid"
        THEN r.body.text
        ELSE <<"Google API error: ", ToString(r.body.data.code), " ">>
             \o r.body.data.message

\* C18: an upstream failure whose message contains "invalid key" is reported
\* as "Error: API key is invalid. Please check your Google API credentials.",
\* one whose message contains "Daily Limit Exceeded" as "Error: Google API
\* daily limit exceeded. Please try again tomorrow.", and every other one as
\* "Error: " followed by its message unchanged.
C18_Original ==
    \A i \in Invs :
        UpstreamFailed(inv[i])
        => LET raw == UpstreamMessage(inv[i])
           IN  /\ inv[i].isError
               /\ inv[i].text =
                    IF \E k \in 1..Len(raw) : raw[k] = "invalid key"
                    THEN <<"Error: ",
                           "API key is invalid. Please check your Google API credentials.">>
                    ELSE IF \E k \in 1..Len(raw) : raw[k] = "Daily Limit Exceeded"
                    THEN <<"Error: ",
                           "Google API daily limit exceeded. Please try again tomorrow.">>
                    ELSE <<"Error: ">> \o raw

-----------------------------------------------------------------------------
(* C19 *)

\* the calls that passed the rate check in the step, 0 or 1: those that
\* reached the limiter and did not fail with "Rate limit exceeded", whether
\* or not they went on to send their request
C19_Passed ==
    IF \E i \in Invs : Attempted(i) /\ inv'[i].text # <<"Error: ", "Rate limit exceeded">>
    THEN 1 ELSE 0

\* C19: the quota an admitted call took is never given back: the steps of
\* an admitted invocation after its admission (its fetch rejecting, a failure
\* status, an unreadable body, an embedded error, no results, results, its
\* return to the host) leave both counters as they were, and a step that
\* does not reset a window changes its counter by exactly the number of
\* calls that passed the rate check in it.  So while no window is reset each
\* counter is the number of calls that passed the rate check, whatever
\* became of them.
C19_NoRefund ==
    [][/\ \A i \in Invs :
            (inv[i].pc \in {"fetching", "reading", "done"} /\ inv'[i] # inv[i])
            => requestCount' = requestCount
       /\ requestCount'.lastDayReset = requestCount.lastDayReset
          => requestCount'.daily = requestCount.daily + C19_Passed
       /\ requestCount'.lastSecondReset = requestCount.lastSecondReset
          => requestCount'.second = requestCount.second + C19_Passed]_vars

\* an admitted call whose upstream response was a failure status has
\* completed as an error, and both counters still hold its increment
C19_Witness ==
    /\ requestCount.daily = 1
    /\ requestCount.second = 1
    /\ \E i \in Invs :
         /\ inv[i].pc = "done"
         /\ inv[i].isError
         /\ inv[i].fetches = 1
         /\ inv[i].response.status = 403
         /\ inv[i].response.body.kind = "text"

====
